---- MODULE Spec2Model ----
(***************************************************************************)
(* Daily ETL pipeline of Pulso-AI (core-template): the orchestrator        *)
(* ProcessDailyETLUseCase, the BigQuery extraction adapter and the         *)
(* PostgreSQL datamart adapter.                                            *)
(*                                                                         *)
(* Modelling note.  The adapters build and read their entities through     *)
(* the attribute names they use themselves (gestion_id, fecha_gestion,     *)
(* cliente_documento, cod_luna, ...).  The dataclasses of domain/entities  *)
(* declare other field names, so under CPython each constructor call of    *)
(* telefonica_adapter.py:120 and :175 raises TypeError and the row is      *)
(* skipped by the surrounding except.  The model follows the adapters'     *)
(* own attribute interface: a row becomes a record holding the keyword     *)
(* arguments passed.  The behaviours of the literal program (every         *)
(* extracted batch empty) are among the behaviours of this model, because  *)
(* source tables may be empty.                                             *)
(***************************************************************************)
EXTENDS Integers, Sequences, FiniteSets, TLC

(***************************************************************************)
(* Bounds of the model                                                     *)
(***************************************************************************)
\* runs of execute() explored in one behaviour
MaxRuns == 2
\* get_processing_status calls explored in one behaviour
MaxQueries == 2
\* connection pools created in one behaviour
MaxPools == 3
\* rows a source table holds when queried, in the multi-run specification
MaxRows == 1
\* rows a source table holds when queried, in the single-run specification
MaxBatchRows == 2
\* days of a date-range run
RangeDays == 5

\* processing dates (fecha_proceso)
Fechas == {1, 2}
\* customer keys (cod_luna); 0 stands for a NULL / None cod_luna
CodLunas == {1}
NoCod == 0
\* values of hora_gestion
Horas == {1, 2}
\* Python None for text columns
None == "<None>"
\* raw agent names of the CALL table
RawEjecutivos == {"ANA"}
\* raw outcome codes (contactabilidad) of the operational tables
RawContactabilidad == {"CONTACTO EFECTIVO", "NO CONTACTO", "OTRO_CODIGO"}
\* raw service lines of master_luna
RawServicios == {None, "FIJA"}

(***************************************************************************)
(* Generic helpers                                                         *)
(***************************************************************************)
RECURSIVE SubsetsUpTo(_, _)
SubsetsUpTo(U, n) ==
    IF n = 0 THEN {{}}
    ELSE LET P == SubsetsUpTo(U, n - 1)
         IN  P \cup {p \cup {x} : p \in P, x \in U}

RECURSIVE SeqsOf(_)
SeqsOf(S) ==
    IF S = {} THEN {<<>>}
    ELSE UNION {{<<x>> \o s : s \in SeqsOf(S \ {x})} : x \in S}

\* Python `x or default` on a text value
OrElse(x, default) == IF x = None \/ x = "" THEN default ELSE x

(***************************************************************************)
(* Value conversions used by the adapters                                  *)
(***************************************************************************)
\* str(cod_luna): the decimal text of an integer, or the text "None" (<<"text", 0>>)
PyStr(c) == IF c = NoCod THEN <<"text", 0>> ELSE <<"digits", c>>

\* int(text) succeeds only on decimal text
IsIntText(s) == s[1] = "digits"
PyInt(s) == s[2]

\* f"{cod_luna}_{fecha_gestion}_{hora_gestion}"
GestionId(cod, fecha, hora) == <<PyStr(cod), fecha, hora>>

\* f"Cliente {cod_luna}"
NombrePorDefecto(cod) == <<"Cliente", cod>>

\* members of TipificacionHomologada (name = value)
TipificacionHomologada ==
    {"CONTACTO_EFECTIVO", "COMPROMISO_PAGO", "PAGO_INMEDIATO", "ACUERDO_PAGO",
     "NO_CONTACTO", "NUMERO_ERRADO", "TELEFONO_APAGADO", "BUZON_VOZ",
     "NO_INTERESADO", "SIN_CAPACIDAD_PAGO", "SOLICITA_FACILIDADES",
     "DISPUTA_DEUDA", "FALLECIDO", "CAMBIO_DATOS", "RECLAMO_CLIENTE"}

\* getattr(TipificacionHomologada, name, TipificacionHomologada.CONTACTO_EFECTIVO)
GetTipificacion(name) ==
    IF name \in TipificacionHomologada THEN name ELSE "CONTACTO_EFECTIVO"

(***************************************************************************)
(* Source tables (BigQuery)                                                *)
(***************************************************************************)
\* rows of mibotair (tabla CALL) and voicebot (tabla VOICEBOT)
RawGestionRows ==
    [tabla : {"CALL"}, fecha_gestion : Fechas, hora_gestion : Horas,
     ejecutivo : RawEjecutivos, contactabilidad : RawContactabilidad,
     es_pdp : BOOLEAN, cod_luna : CodLunas \cup {NoCod}]
    \cup
    [tabla : {"VOICEBOT"}, fecha_gestion : Fechas, hora_gestion : Horas,
     ejecutivo : {None}, contactabilidad : RawContactabilidad,
     es_pdp : BOOLEAN, cod_luna : CodLunas \cup {NoCod}]

\* rows of batch master_luna
RawClienteRows ==
    [cod_luna : CodLunas, cliente : {None}, dni : CodLunas,
     servicio : RawServicios, cartera : {None}, monto_exigible : {0},
     zona : {None}]

\* the SQL of extract_gestiones, one SELECT branch applied to one row
SelectGestion(r) ==
    [fecha_gestion |-> r.fecha_gestion,
     hora_gestion |-> r.hora_gestion,
     ejecutivo |-> IF r.tabla = "CALL" THEN r.ejecutivo ELSE "VOICEBOT",
     canal |-> r.tabla,
     contactabilidad |-> r.contactabilidad,
     tipificacion_homologada |->
        IF r.es_pdp THEN "COMPROMISO_PAGO"
        ELSE IF r.contactabilidad = "CONTACTO EFECTIVO" THEN "CONTACTO_EFECTIVO"
        ELSE "NO_CONTACTO",
     cod_luna |-> r.cod_luna]

\* result sets of the gestiones query for a date: WHERE fecha_gestion = fecha,
\* UNION ALL of both tables, ORDER BY fecha_gestion, hora_gestion (ties in any order)
QueryGestiones(tables, fecha) ==
    LET rows == {SelectGestion(r) : r \in {t \in tables : t.fecha_gestion = fecha}}
    IN  {s \in SeqsOf(rows) :
            \A i \in 1..Len(s), j \in 1..Len(s) :
                i < j => s[i].hora_gestion <= s[j].hora_gestion}

\* result sets of the clientes query: SELECT DISTINCT ... WHERE cod_luna IS NOT NULL
\* AND dni IS NOT NULL ORDER BY cod_luna (ties in any order)
QueryClientes(tables) ==
    LET rows == {[cod_luna |-> t.cod_luna, nombre |-> t.cliente, documento |-> t.dni,
                  servicio |-> t.servicio, cartera |-> t.cartera,
                  monto_exigible |-> t.monto_exigible, zona |-> t.zona] :
                    t \in {u \in tables : u.cod_luna # NoCod /\ u.dni # NoCod}}
    IN  {s \in SeqsOf(rows) :
            \A i \in 1..Len(s), j \in 1..Len(s) :
                i < j => s[i].cod_luna <= s[j].cod_luna}

(***************************************************************************)
(* Row to entity (telefonica_adapter.py)                                   *)
(***************************************************************************)
NewGestion(row) ==
    [gestion_id |-> GestionId(row.cod_luna, row.fecha_gestion, row.hora_gestion),
     fecha_gestion |-> row.fecha_gestion,
     hora_gestion |-> row.hora_gestion,
     cliente_documento |-> PyStr(row.cod_luna),
     ejecutivo |-> OrElse(row.ejecutivo, "SISTEMA"),
     canal |-> IF row.canal = "CALL" THEN "CALL" ELSE "VOICEBOT",
     contactabilidad |-> row.contactabilidad,
     tipificacion_original |-> row.contactabilidad,
     tipificacion_homologada |-> GetTipificacion(row.tipificacion_homologada),
     duracion_segundos |-> 0,
     observaciones |-> ""]

NewCliente(row) ==
    [cod_luna |-> row.cod_luna,
     nombre |-> IF row.nombre = None THEN NombrePorDefecto(row.cod_luna)
                ELSE <<"Nombre", row.nombre>>,
     documento |-> PyStr(row.documento),
     servicio |-> OrElse(row.servicio, "MOVIL"),
     cartera |-> OrElse(row.cartera, "Regular"),
     deuda_total |-> row.monto_exigible,
     zona |-> OrElse(row.zona, "LIMA")]

\* the conversion loops of extract_gestiones / extract_clientes
ToGestiones(rows) == [i \in 1..Len(rows) |-> NewGestion(rows[i])]
ToClientes(rows) == [i \in 1..Len(rows) |-> NewCliente(rows[i])]

(***************************************************************************)
(* Datamart (datamart_adapter.py): the three tables are sets of rows       *)
(***************************************************************************)
\* one statement of the executemany of load_clientes:
\* INSERT ... ON CONFLICT (cod_luna) DO UPDATE SET <all but created_at>
UpsertCliente(tbl, c, ts) ==
    LET old == {r \in tbl : r.cod_luna = c.cod_luna}
        created == IF old = {} THEN ts ELSE (CHOOSE r \in old : TRUE).created_at
    IN  (tbl \ old) \cup
        {[cod_luna |-> c.cod_luna, nombre |-> c.nombre, documento |-> c.documento,
          servicio |-> c.servicio, cartera |-> c.cartera,
          deuda_total |-> c.deuda_total, zona |-> c.zona,
          created_at |-> created, updated_at |-> ts]}

RECURSIVE LoadClientesRows(_, _, _)
LoadClientesRows(tbl, clientes, ts) ==
    IF clientes = <<>> THEN tbl
    ELSE LoadClientesRows(UpsertCliente(tbl, Head(clientes), ts), Tail(clientes), ts)

\* SELECT ... FROM dim_clientes WHERE cod_luna = ANY($1::bigint[]), keyed by str(cod_luna)
ClientInfo(tbl, gestiones, doc) ==
    LET wanted == {PyInt(gestiones[i].cliente_documento) : i \in 1..Len(gestiones)}
        hit == {r \in tbl : r.cod_luna \in wanted /\ PyStr(r.cod_luna) = doc}
    IN  IF hit = {}
        THEN [nombre |-> <<>>, servicio |-> "", cartera |-> "", zona |-> ""]
        ELSE LET r == CHOOSE x \in hit : TRUE
             IN  [nombre |-> r.nombre, servicio |-> r.servicio,
                  cartera |-> r.cartera, zona |-> r.zona]

\* the record tuple load_gestiones prepares for one gestion
GestionRecord(tbl, gestiones, g) ==
    LET info == ClientInfo(tbl, gestiones, g.cliente_documento)
    IN  [gestion_id |-> g.gestion_id, fecha_gestion |-> g.fecha_gestion,
         hora_gestion |-> g.hora_gestion, cod_luna |-> PyInt(g.cliente_documento),
         ejecutivo |-> g.ejecutivo, canal |-> g.canal,
         contactabilidad |-> g.contactabilidad,
         tipificacion_homologada |-> g.tipificacion_homologada,
         duracion_segundos |-> g.duracion_segundos,
         observaciones |-> g.observaciones,
         cliente_nombre |-> info.nombre, servicio |-> info.servicio,
         cartera |-> info.cartera, zona |-> info.zona]

\* the table emptied before each insert
UpsertGestionTruncate(tbl, rec, ts) ==
    {[f \in DOMAIN rec \cup {"created_at"} |->
        IF f = "created_at" THEN ts ELSE rec[f]]}

\* a plain INSERT that keeps the stored row and adds the new one
UpsertGestionNoConflict(tbl, rec, ts) ==
    tbl \cup {[f \in DOMAIN rec \cup {"created_at"} |->
                IF f = "created_at" THEN ts ELSE rec[f]]}

\* one statement of the executemany of load_gestiones:
\* INSERT ... ON CONFLICT (gestion_id) DO UPDATE SET contactabilidad,
\* tipificacion_homologada, observaciones, cliente_nombre, servicio, cartera, zona
UpsertGestion(tbl, rec, ts) ==
    LET old == {r \in tbl : r.gestion_id = rec.gestion_id}
    IN  IF old = {}
        THEN tbl \cup {[f \in DOMAIN rec \cup {"created_at"} |->
                          IF f = "created_at" THEN ts ELSE rec[f]]}
        ELSE LET o == CHOOSE r \in old : TRUE
             IN  (tbl \ old) \cup
                 {[o EXCEPT !.contactabilidad = rec.contactabilidad,
                            !.tipificacion_homologada = rec.tipificacion_homologada,
                            !.observaciones = rec.observaciones,
                            !.cliente_nombre = rec.cliente_nombre,
                            !.servicio = rec.servicio,
                            !.cartera = rec.cartera,
                            !.zona = rec.zona]}

RECURSIVE LoadGestionesRows(_, _, _)
LoadGestionesRows(tbl, records, ts) ==
    IF records = <<>> THEN tbl
    ELSE LoadGestionesRows(UpsertGestion(tbl, Head(records), ts), Tail(records), ts)

\* int(gestion.cliente_documento) raises ValueError on non-numeric text
GestionesLoadable(gestiones) ==
    \A i \in 1..Len(gestiones) : IsIntText(gestiones[i].cliente_documento)

\* ROUND(num * 100.0 / den, 2), in hundredths of a percent
Tasa(num, den) == (2 * 10000 * num + den) \div (2 * den)

\* the GROUP BY keys of refresh_daily_metrics over the fact rows of a date
MetricGroups(facts, fecha) ==
    {[ejecutivo |-> r.ejecutivo, canal |-> r.canal, servicio |-> r.servicio,
      cartera |-> r.cartera] : r \in {x \in facts : x.fecha_gestion = fecha}}

GroupRows(facts, fecha, k) ==
    {r \in facts : /\ r.fecha_gestion = fecha /\ r.ejecutivo = k.ejecutivo
                   /\ r.canal = k.canal /\ r.servicio = k.servicio
                   /\ r.cartera = k.cartera}

ContactosEfectivos(rows) ==
    Cardinality({r \in rows : r.contactabilidad = "CONTACTO EFECTIVO"})

GestionesPdp(rows) ==
    Cardinality({r \in rows : r.tipificacion_homologada = "COMPROMISO_PAGO"})

\* the SELECT of the INSERT raises division by zero when a group has no
\* row with contactabilidad = 'CONTACTO EFECTIVO' (denominator of tasa_pdp)
MetricsComputable(facts, fecha) ==
    \A k \in MetricGroups(facts, fecha) :
        ContactosEfectivos(GroupRows(facts, fecha, k)) # 0

\* COUNT(DISTINCT cod_luna) written where COUNT(*) belongs
ComputeMetricsDistinct(facts, fecha, ts) ==
    {LET rows == GroupRows(facts, fecha, k)
     IN  [fecha |-> fecha, ejecutivo |-> k.ejecutivo, canal |-> k.canal,
          servicio |-> k.servicio, cartera |-> k.cartera,
          total_gestiones |-> Cardinality({r.cod_luna : r \in rows}),
          contactos_efectivos |-> ContactosEfectivos(rows),
          gestiones_pdp |-> GestionesPdp(rows),
          clientes_gestionados |-> Cardinality({r.cod_luna : r \in rows}),
          tasa_contactabilidad |-> Tasa(ContactosEfectivos(rows), Cardinality(rows)),
          tasa_pdp |-> Tasa(GestionesPdp(rows), ContactosEfectivos(rows)),
          created_at |-> ts]
        : k \in MetricGroups(facts, fecha)}

ComputeMetrics(facts, fecha, ts) ==
    {LET rows == GroupRows(facts, fecha, k)
     IN  [fecha |-> fecha, ejecutivo |-> k.ejecutivo, canal |-> k.canal,
          servicio |-> k.servicio, cartera |-> k.cartera,
          total_gestiones |-> Cardinality(rows),
          contactos_efectivos |-> ContactosEfectivos(rows),
          gestiones_pdp |-> GestionesPdp(rows),
          clientes_gestionados |-> Cardinality({r.cod_luna : r \in rows}),
          tasa_contactabilidad |-> Tasa(ContactosEfectivos(rows), Cardinality(rows)),
          tasa_pdp |-> Tasa(GestionesPdp(rows), ContactosEfectivos(rows)),
          created_at |-> ts]
        : k \in MetricGroups(facts, fecha)}

\* a DELETE without its WHERE clause
DeleteMetricsAll(tbl, fecha) == {}

\* DELETE FROM daily_metrics WHERE fecha = $1
DeleteMetrics(tbl, fecha) == {m \in tbl : m.fecha # fecha}

RECURSIVE SumDuracion(_)
SumDuracion(rows) ==
    IF rows = {} THEN 0
    ELSE LET r == CHOOSE x \in rows : TRUE
         IN  r.duracion_segundos + SumDuracion(rows \ {r})

\* ROUND(AVG(duracion_segundos), 0): NULL over no rows
AvgDuracion(rows) ==
    IF rows = {} THEN [none |-> TRUE]
    ELSE [nan |-> FALSE,
          v |-> (2 * SumDuracion(rows) + Cardinality(rows)) \div (2 * Cardinality(rows))]

\* the summary query without its WHERE clause
DashboardSummaryAll(facts, fecha_inicio, fecha_fin) ==
    [total_gestiones |-> Cardinality(facts),
     clientes_gestionados |-> Cardinality({r.cod_luna : r \in facts}),
     contactos_efectivos |-> ContactosEfectivos(facts),
     gestiones_pdp |-> GestionesPdp(facts),
     duracion_promedio |-> AvgDuracion(facts)]

\* get_dashboard_data, the summary row: SELECT COUNT(*), ... FROM fact_gestiones
\* WHERE fecha_gestion BETWEEN $1 AND $2
DashboardSummary(facts, fecha_inicio, fecha_fin) ==
    LET rows == {r \in facts : /\ fecha_inicio <= r.fecha_gestion
                               /\ r.fecha_gestion <= fecha_fin}
    IN  [total_gestiones |-> Cardinality(rows),
         clientes_gestionados |-> Cardinality({r.cod_luna : r \in rows}),
         contactos_efectivos |-> ContactosEfectivos(rows),
         gestiones_pdp |-> GestionesPdp(rows),
         duracion_promedio |-> AvgDuracion(rows)]

(***************************************************************************)
(* Domain entities (domain/entities): texts are sequences of characters,   *)
(* floats carry NaN, an Optional float may be None                         *)
(***************************************************************************)
\* the texts explored: empty, blank, padded and plain
Texts == {<<>>, <<" ">>, <<" ", " ">>, <<"7">>, <<" ", "7">>, <<"7", " ">>, <<"8">>}

\* str.strip(): leading and trailing whitespace removed
RECURSIVE LStrip(_)
LStrip(s) == IF s # <<>> /\ Head(s) = " " THEN LStrip(Tail(s)) ELSE s

RECURSIVE RStrip(_)
RStrip(s) ==
    IF s # <<>> /\ s[Len(s)] = " " THEN RStrip(SubSeq(s, 1, Len(s) - 1)) ELSE s

Strip(s) == RStrip(LStrip(s))

\* hash(str): a deterministic function of the text (collisions exist)
CharCode(c) == IF c = " " THEN 0 ELSE IF c = "7" THEN 1 ELSE 2

RECURSIVE TextHash(_)
TextHash(s) ==
    IF s = <<>> THEN 0
    ELSE (3 * TextHash(SubSeq(s, 1, Len(s) - 1)) + CharCode(s[Len(s)])) % 4

\* Python floats: a number or NaN; every ordering comparison with NaN is False
Float(n) == [nan |-> FALSE, v |-> n]
NaN == [nan |-> TRUE, v |-> 0]
FloatLt(x, y) == ~x.nan /\ ~y.nan /\ x.v < y.v
FloatLe(x, y) == ~x.nan /\ ~y.nan /\ x.v <= y.v
FloatGe(x, y) == ~x.nan /\ ~y.nan /\ x.v >= y.v

\* Optional[float] = None
NoFloat == [none |-> TRUE]
IsNone(x) == "none" \in DOMAIN x

\* Cliente.__post_init__: the message of the ValueError raised, "" when none is
ClientePostInit(c) ==
    IF Strip(c.documento) = <<>> THEN "Documento no puede estar vacio"
    ELSE IF Strip(c.nombre) = <<>> THEN "Nombre no puede estar vacio"
    ELSE IF FloatLt(c.saldo_actual, Float(0)) THEN "Saldo actual no puede ser negativo"
    ELSE IF c.dias_mora < 0 THEN "Dias de mora no pueden ser negativos"
    ELSE ""

\* Cliente(documento, nombre, saldo_actual, dias_mora): the object, or the error raised
NewClienteEntity(c) == [kind |-> "Cliente", args |-> c, error |-> ClientePostInit(c)]

EstaEnMora(c, dias_minimos) == c.dias_mora >= dias_minimos

TieneDeudaSignificativa(c, monto_minimo) == FloatGe(c.saldo_actual, Float(monto_minimo))

RequiereAtencionUrgente(c, dias_criticos, monto_critico) ==
    EstaEnMora(c, dias_criticos) /\ TieneDeudaSignificativa(c, monto_critico)

\* the thresholds taken as exclusive
CalcularPrioridadEstricta(c) ==
    IF c.dias_mora > 90 /\ FloatGe(c.saldo_actual, Float(1500)) THEN "ALTA"
    ELSE IF c.dias_mora > 30 /\ FloatGe(c.saldo_actual, Float(500)) THEN "MEDIA"
    ELSE "BAJA"

CalcularPrioridadCobranza(c) ==
    IF RequiereAtencionUrgente(c, 90, 1500) THEN "ALTA"
    ELSE IF EstaEnMora(c, 30) /\ TieneDeudaSignificativa(c, 500) THEN "MEDIA"
    ELSE "BAJA"

\* the equality a dataclass generates: field by field
ClienteEqAllFields(c, other) ==
    IF other.kind # "Cliente" THEN FALSE
    ELSE c.args = other.args

\* Cliente.__eq__(self, other), other any built value
ClienteEq(c, other) ==
    IF other.kind # "Cliente" THEN FALSE
    ELSE c.args.documento = other.args.documento

\* Cliente.__hash__
ClienteHash(c) == TextHash(c.args.documento)

\* the validation without the commitment rule
GestionPostInitNoRule(g) ==
    IF Strip(g.documento_cliente) = <<>> THEN "Documento cliente no puede estar vacio"
    ELSE IF Strip(g.ejecutivo) = <<>> THEN "Ejecutivo no puede estar vacio"
    ELSE IF g.numero_intentos < 1 THEN "Numero de intentos debe ser mayor a 0"
    ELSE IF ~IsNone(g.monto_comprometido) /\ FloatLe(g.monto_comprometido, Float(0))
         THEN "Monto comprometido debe ser positivo"
    ELSE ""

\* Gestion.__post_init__: the message of the ValueError raised, "" when none is
GestionPostInit(g) ==
    IF Strip(g.documento_cliente) = <<>> THEN "Documento cliente no puede estar vacio"
    ELSE IF Strip(g.ejecutivo) = <<>> THEN "Ejecutivo no puede estar vacio"
    ELSE IF g.numero_intentos < 1 THEN "Numero de intentos debe ser mayor a 0"
    ELSE IF g.es_compromiso /\ ~g.es_contacto
         THEN "No puede haber compromiso sin contacto efectivo"
    ELSE IF ~IsNone(g.monto_comprometido) /\ FloatLe(g.monto_comprometido, Float(0))
         THEN "Monto comprometido debe ser positivo"
    ELSE ""

\* Gestion(documento_cliente, ..., es_contacto, es_compromiso, ...)
NewGestionEntity(g) == [kind |-> "Gestion", args |-> g, error |-> GestionPostInit(g)]

\* Optional[float] in a boolean context: None and 0.0 are false, NaN is true
FloatTruthy(x) == ~IsNone(x) /\ (x.nan \/ x.v # 0)

\* Metrica.__post_init__: the message of the ValueError raised, "" when none is
MetricaPostInit(m) ==
    IF Strip(m.nombre) = <<>> THEN "Nombre de metrica no puede estar vacio"
    ELSE IF /\ m.unidad = "PORCENTAJE"
            /\ ~(FloatLe(Float(0), m.valor) /\ FloatLe(m.valor, Float(100)))
         THEN "Valor de porcentaje debe estar entre 0 y 100"
    ELSE IF /\ m.unidad = "SCORE"
            /\ ~(FloatLe(Float(0), m.valor) /\ FloatLe(m.valor, Float(1)))
         THEN "Valor de score debe estar entre 0 y 1"
    ELSE IF /\ ~IsNone(m.threshold_warning)
            /\ ~IsNone(m.threshold_critical)
            /\ FloatLe(m.threshold_critical, m.threshold_warning)
         THEN "Threshold critico debe ser mayor al de warning"
    ELSE ""

\* Metrica(nombre, valor, unidad, ..., threshold_warning, threshold_critical, target_value)
NewMetrica(m) == [kind |-> "Metrica", args |-> m, error |-> MetricaPostInit(m)]

\* Metrica.calcular_nivel_rendimiento
CalcularNivelRendimiento(m) ==
    IF FloatTruthy(m.target_value) /\ FloatGe(m.valor, m.target_value) THEN "EXCELENTE"
    ELSE IF ~IsNone(m.threshold_warning) /\ FloatGe(m.valor, m.threshold_warning)
         THEN "BUENO"
    ELSE IF ~IsNone(m.threshold_critical) /\ FloatGe(m.valor, m.threshold_critical)
         THEN "WARNING"
    ELSE "CRITICO"

(***************************************************************************)
(* Enums (domain/value_objects/enums.py): a member is its name             *)
(***************************************************************************)
CanalContacto ==
    {"CALL", "VOICEBOT", "EMAIL", "SMS", "WHATSAPP", "VISITA_DOMICILIO", "CARTA",
     "CALL_CENTER"}

\* the members of TipificacionHomologada in definition order (iteration of the class)
TipificacionMembers ==
    <<"CONTACTO_EFECTIVO", "COMPROMISO_PAGO", "PAGO_INMEDIATO", "ACUERDO_PAGO",
      "NO_CONTACTO", "NUMERO_ERRADO", "TELEFONO_APAGADO", "BUZON_VOZ",
      "NO_INTERESADO", "SIN_CAPACIDAD_PAGO", "SOLICITA_FACILIDADES",
      "DISPUTA_DEUDA", "FALLECIDO", "CAMBIO_DATOS", "RECLAMO_CLIENTE">>

EsCanalAutomatizado(c) == c \in {"VOICEBOT", "SMS"}

\* only the telephone channels taken as needing an agent
RequiereAgenteHumanoSoloCall(c) == c \in {"CALL", "CALL_CENTER"}

RequiereAgenteHumano(c) == c \in {"CALL", "WHATSAPP", "VISITA_DOMICILIO", "CALL_CENTER"}

CanalesDeAltaConversion == <<"CALL", "WHATSAPP", "VISITA_DOMICILIO">>

CanalesDeBajoCosto == <<"EMAIL", "SMS", "VOICEBOT">>

EsResultadoPositivo(t) ==
    t \in {"CONTACTO_EFECTIVO", "COMPROMISO_PAGO", "PAGO_INMEDIATO", "ACUERDO_PAGO",
           "SOLICITA_FACILIDADES"}

IndicaContactoEfectivo(t) ==
    t \notin {"NO_CONTACTO", "NUMERO_ERRADO", "TELEFONO_APAGADO", "BUZON_VOZ"}

TipificacionesDeExito == <<"COMPROMISO_PAGO", "PAGO_INMEDIATO", "ACUERDO_PAGO">>

\* [tip for tip in cls if tip.indica_contacto_efectivo()]
TipificacionesDeContacto == SelectSeq(TipificacionMembers, IndicaContactoEfectivo)

(***************************************************************************)
(* State                                                                   *)
(***************************************************************************)
VARIABLES
    pc,        \* position of execute(): "idle" between runs
    fecha,     \* fecha_proceso of the current / last run
    now,       \* logical clock: number of runs started (datetime.now(), NOW())
    srcG,      \* rows of the operational tables for fecha when they were queried
    srcC,      \* rows of master_luna for fecha when it was queried
    srcFail,   \* the extraction queries that raised in this run
    ext,       \* extraction_result of this run
    loaded,    \* loading_result of this run
    result,    \* the dict execute() returned last
    calls,     \* port calls made by this run, in order
    dim,       \* table dim_clientes
    fact,      \* table fact_gestiones
    metrics,   \* table daily_metrics
    prev,      \* end of the previous run: its date, source, result and row counts
    range,     \* a date-range run: the dates left and the outcome of each pass
    config,    \* the canonical fields the tenant configuration in force maps
    obj,       \* domain entities under construction: the last constructor calls
    tasks,     \* the two extraction tasks of extract_daily_data
    pool,      \* the datamart adapter's _pool and the operations that use it
    statusq    \* the last get_processing_status call and the dict it returned

vars == <<pc, fecha, now, srcG, srcC, srcFail, ext, loaded, result, calls,
          dim, fact, metrics, prev, range, config, obj, tasks, pool, statusq>>

datamart == <<dim, fact, metrics>>

\* the state of the pipeline
pipeline == <<pc, fecha, now, srcG, srcC, srcFail, ext, loaded, result, calls,
              dim, fact, metrics, prev, range>>

\* what the pipeline neither reads nor writes
aside == <<config, obj, tasks, pool, statusq>>

\* source contents explored by the multi-run specification: rows with a customer
\* key and without a payment promise
DailyGestionRows ==
    {r \in RawGestionRows : /\ r.cod_luna # NoCod
                            /\ ~r.es_pdp
                            /\ r.contactabilidad # "NO CONTACTO"}
GestionTables == SubsetsUpTo(DailyGestionRows, MaxRows)
ClienteTables == SubsetsUpTo(RawClienteRows, MaxRows)
\* source contents explored by the single-run specification
BatchGestionTables == SubsetsUpTo(RawGestionRows, MaxBatchRows)
BatchClienteTables == SubsetsUpTo(RawClienteRows, MaxBatchRows)

NoExt == [clientes |-> <<>>, gestiones |-> <<>>,
          metadata |-> [total_gestiones |-> 0, total_clientes |-> 0]]
NoLoaded == [clientes_loaded |-> 0, gestiones_loaded |-> 0]
NoSummary == [total_clientes |-> 0, total_gestiones |-> 0,
              clientes_loaded |-> 0, gestiones_loaded |-> 0]
NoResult == [status |-> "none", fecha_proceso |-> 0, error_type |-> "",
             error |-> "", summary |-> NoSummary, keys |-> {}]
NoPrev == [status |-> "none", fecha |-> 0, srcG |-> {}, srcC |-> {},
           srcFail |-> {}, ndim |-> 0, nfact |-> 0]
NoRange == [active |-> FALSE, left |-> <<>>, outcomes |-> <<>>]

\* the fields Cliente and Gestion require at construction
CanonicalFields ==
    {"documento", "nombre", "saldo_actual", "dias_mora",
     "documento_cliente", "fecha", "canal", "ejecutivo", "tipificacion_original",
     "tipificacion_homologada", "es_contacto", "es_compromiso"}
\* no value built yet
NoValue == [kind |-> "none", args |-> <<>>, error |-> ""]
NoObj == [a |-> NoValue, b |-> NoValue]

\* an extraction task not created yet, and extract_daily_data not entered
NoTask == [state |-> "none", raised |-> FALSE, out |-> <<>>]
NoTasks == [gestiones |-> NoTask, clientes |-> NoTask, order |-> <<>>]

\* coroutines that use the datamart adapter at the same time
PoolUsers == {1, 2}
\* the adapter after __init__: _pool is None (0), no pool was ever created
NoPool == [current |-> 0, created |-> 0, closed |-> {},
           at |-> [t \in PoolUsers |-> "idle"], closing |-> [t \in PoolUsers |-> 0]]

\* no get_processing_status call made yet
NoReply == [status |-> "none", fecha_proceso |-> 0, data_available |-> FALSE,
            summary |-> <<>>, error |-> "", keys |-> {}]
NoStatus == [n |-> 0, raised |-> FALSE, reply |-> NoReply]

\* the parts of the state outside the pipeline and the entities, after construction
InitIdle ==
    /\ tasks = NoTasks
    /\ pool = NoPool
    /\ statusq = NoStatus

\* the pipeline after __init__: no run yet, empty datamart
InitPipeline ==
    /\ pc = "idle"
    /\ fecha = 0
    /\ now = 0
    /\ srcG = {}
    /\ srcC = {}
    /\ srcFail = {}
    /\ ext = NoExt
    /\ loaded = NoLoaded
    /\ result = NoResult
    /\ calls = <<>>
    /\ dim = {}
    /\ fact = {}
    /\ metrics = {}
    /\ prev = NoPrev
    /\ range = NoRange

Init ==
    /\ InitPipeline
    /\ config = CanonicalFields
    /\ obj = NoObj
    /\ InitIdle

(***************************************************************************)
(* execute(fecha_proceso), one action per awaited port call                *)
(***************************************************************************)
\* the except branch of execute: the error is returned as a value
ErrorResult(etype, msg) ==
    [status |-> "error", fecha_proceso |-> fecha, error_type |-> etype,
     error |-> msg, summary |-> NoSummary,
     keys |-> {"status", "fecha_proceso", "execution_time_seconds", "error",
               "error_type"}]

\* an exception that leaves execute() instead of being returned
RaiseToCaller(etype, msg) ==
    /\ pc' = "raised"
    /\ UNCHANGED result

Raise(etype, msg) ==
    /\ result' = ErrorResult(etype, msg)
    /\ pc' = "idle"

\* entry of execute(d)
BeginExecute(d) ==
    /\ pc' = "test_bigquery"
    /\ fecha' = d
    /\ now' = now + 1
    /\ prev' = [status |-> result.status, fecha |-> fecha, srcG |-> srcG,
                srcC |-> srcC, srcFail |-> srcFail, ndim |-> Cardinality(dim),
                nfact |-> Cardinality(fact)]
    /\ srcG' = {}
    /\ srcC' = {}
    /\ srcFail' = {}
    /\ ext' = NoExt
    /\ loaded' = NoLoaded
    /\ result' = NoResult
    /\ calls' = <<>>
    /\ UNCHANGED <<datamart, aside>>

\* a caller invokes execute(d) for one date
StartRun(d, maxRuns) ==
    /\ pc = "idle"
    /\ ~range.active
    /\ now < maxRuns
    /\ BeginExecute(d)
    /\ UNCHANGED range

\* _test_connections, first half: bigquery.test_connection()
TestBigQuery(ok) ==
    /\ pc = "test_bigquery"
    /\ calls' = Append(calls, [op |-> "bigquery.test_connection", ok |-> ok])
    /\ IF ok THEN pc' = "test_postgres" /\ UNCHANGED result
             ELSE Raise("ConnectionError", "BigQuery connection failed")
    /\ UNCHANGED <<fecha, now, srcG, srcC, srcFail, ext, loaded, prev, range, aside, datamart>>

\* the result of datamart.test_connection() left unchecked
TestPostgresUnchecked(ok) ==
    /\ pc = "test_postgres"
    /\ calls' = Append(calls, [op |-> "datamart.test_connection", ok |-> ok])
    /\ pc' = "ensure_schema"
    /\ UNCHANGED <<result, fecha, now, srcG, srcC, srcFail, ext, loaded, prev, range, aside,
                   datamart>>

\* _test_connections, second half: datamart.test_connection()
TestPostgres(ok) ==
    /\ pc = "test_postgres"
    /\ calls' = Append(calls, [op |-> "datamart.test_connection", ok |-> ok])
    /\ IF ok THEN pc' = "ensure_schema" /\ UNCHANGED result
             ELSE Raise("ConnectionError", "PostgreSQL connection failed")
    /\ UNCHANGED <<fecha, now, srcG, srcC, srcFail, ext, loaded, prev, range, aside, datamart>>

\* datamart.ensure_schema_exists(): CREATE ... IF NOT EXISTS leaves the rows alone
EnsureSchema(ok) ==
    /\ pc = "ensure_schema"
    /\ calls' = Append(calls, [op |-> "datamart.ensure_schema_exists", ok |-> ok])
    /\ IF ok THEN pc' = "extract" /\ UNCHANGED result
             ELSE Raise("PostgresError", "schema")
    /\ UNCHANGED <<fecha, now, srcG, srcC, srcFail, ext, loaded, prev, range, aside, datamart>>

\* extract_daily_data: gather(..., return_exceptions=True) and the two
\* isinstance(..., Exception) branches that replace a failed task by []
ExtractDailyData(qg, qc, gfail, cfail) ==
    LET gestiones == IF gfail THEN <<>> ELSE ToGestiones(qg)
        clientes == IF cfail THEN <<>> ELSE ToClientes(qc)
    IN  [clientes |-> clientes, gestiones |-> gestiones,
         metadata |-> [total_gestiones |-> Len(gestiones),
                       total_clientes |-> Len(clientes)]]

\* _extract_data: bigquery.extract_daily_data(fecha_proceso)
Extract(tg, tc, gfail, cfail) ==
    /\ pc = "extract"
    /\ calls' = Append(calls, [op |-> "bigquery.extract_daily_data", ok |-> TRUE])
    /\ srcG' = {t \in tg : t.fecha_gestion = fecha}
    /\ srcC' = tc
    /\ srcFail' = (IF gfail THEN {"gestiones"} ELSE {}) \cup
                  (IF cfail THEN {"clientes"} ELSE {})
    /\ \E qg \in QueryGestiones(tg, fecha), qc \in QueryClientes(tc) :
          ext' = ExtractDailyData(qg, qc, gfail, cfail)
    /\ pc' = "load_clientes"
    /\ UNCHANGED <<fecha, now, loaded, result, prev, range, aside, datamart>>

\* extract_daily_data, first part: create_task(extract_gestiones(...)) and
\* create_task(extract_clientes(...)), then the await of gather
ExtractStart ==
    /\ pc = "extract"
    /\ calls' = Append(calls, [op |-> "bigquery.extract_daily_data", ok |-> TRUE])
    /\ tasks' = [gestiones |-> [NoTask EXCEPT !.state = "pending"],
                 clientes |-> [NoTask EXCEPT !.state = "pending"],
                 order |-> <<>>]
    /\ pc' = "gather"
    /\ UNCHANGED <<fecha, now, srcG, srcC, srcFail, ext, loaded, result, prev, range,
                   config, obj, pool, statusq, datamart>>

\* the task of extract_gestiones runs: the query, then the conversion loop; it
\* returns the list or ends with the exception the query raised
TaskGestiones(tg, fail) ==
    /\ pc = "gather"
    /\ tasks.gestiones.state = "pending"
    /\ srcG' = {t \in tg : t.fecha_gestion = fecha}
    /\ srcFail' = srcFail \cup (IF fail THEN {"gestiones"} ELSE {})
    /\ \E qg \in QueryGestiones(tg, fecha) :
          tasks' = [tasks EXCEPT
                       !.gestiones = [state |-> "done", raised |-> fail,
                                      out |-> IF fail THEN <<>> ELSE ToGestiones(qg)],
                       !.order = Append(@, "gestiones")]
    /\ UNCHANGED <<pc, fecha, now, srcC, ext, loaded, result, calls, prev, range,
                   config, obj, pool, statusq, datamart>>

\* the task of extract_clientes runs
TaskClientes(tc, fail) ==
    /\ pc = "gather"
    /\ tasks.clientes.state = "pending"
    /\ srcC' = tc
    /\ srcFail' = srcFail \cup (IF fail THEN {"clientes"} ELSE {})
    /\ \E qc \in QueryClientes(tc) :
          tasks' = [tasks EXCEPT
                       !.clientes = [state |-> "done", raised |-> fail,
                                     out |-> IF fail THEN <<>> ELSE ToClientes(qc)],
                       !.order = Append(@, "clientes")]
    /\ UNCHANGED <<pc, fecha, now, srcG, ext, loaded, result, calls, prev, range,
                   config, obj, pool, statusq, datamart>>

\* results handed out in the order the tasks completed
GatherByCompletion(ts) == <<ts[ts.order[1]], ts[ts.order[2]]>>

\* gestiones, clientes = await asyncio.gather(gestiones_task, clientes_task,
\* return_exceptions=True): the results in the order of the arguments
Gather(ts) == <<ts.gestiones, ts.clientes>>

\* extract_daily_data, second part: gather returns when both tasks are done; an
\* exception is replaced by [] and the result dict is built
ExtractGather ==
    /\ pc = "gather"
    /\ tasks.gestiones.state = "done"
    /\ tasks.clientes.state = "done"
    /\ LET got == Gather(tasks)
           gestiones == IF got[1].raised THEN <<>> ELSE got[1].out
           clientes == IF got[2].raised THEN <<>> ELSE got[2].out
       IN  ext' = [clientes |-> clientes, gestiones |-> gestiones,
                   metadata |-> [total_gestiones |-> Len(gestiones),
                                 total_clientes |-> Len(clientes)]]
    /\ pc' = "load_clientes"
    /\ UNCHANGED <<fecha, now, srcG, srcC, srcFail, loaded, result, calls, prev, range,
                   aside, datamart>>

\* a failure of load_clientes swallowed, the run going on to load_gestiones
LoadClientesSwallow(ok) ==
    /\ pc = "load_clientes"
    /\ IF ext.clientes = <<>>
       THEN /\ ok
            /\ UNCHANGED <<calls, dim, loaded>>
       ELSE /\ calls' = Append(calls, [op |-> "datamart.load_clientes", ok |-> ok])
            /\ IF ok
               THEN /\ dim' = LoadClientesRows(dim, ext.clientes, now)
                    /\ loaded' = [loaded EXCEPT !.clientes_loaded = Len(ext.clientes)]
               ELSE UNCHANGED <<dim, loaded>>
    /\ pc' = "load_gestiones"
    /\ UNCHANGED <<result, fecha, now, srcG, srcC, srcFail, ext, prev, range, aside, fact,
                   metrics>>

\* _load_data, first half: load_clientes is called only for a non-empty list
LoadClientes(ok) ==
    /\ pc = "load_clientes"
    /\ IF ext.clientes = <<>>
       THEN /\ ok
            /\ pc' = "load_gestiones"
            /\ UNCHANGED <<calls, dim, loaded, result>>
       ELSE /\ calls' = Append(calls, [op |-> "datamart.load_clientes", ok |-> ok])
            /\ IF ok
               THEN /\ dim' = LoadClientesRows(dim, ext.clientes, now)
                    /\ loaded' = [loaded EXCEPT !.clientes_loaded = Len(ext.clientes)]
                    /\ pc' = "load_gestiones"
                    /\ UNCHANGED result
               ELSE /\ Raise("PostgresError", "load_clientes")
                    /\ UNCHANGED <<dim, loaded>>
    /\ UNCHANGED <<fecha, now, srcG, srcC, srcFail, ext, prev, range, aside, fact, metrics>>

\* both loads of a run taken as one transaction: a failed load_gestiones undoes
\* the customers the run upserted
LoadGestionesAtomic(ok) ==
    /\ pc = "load_gestiones"
    /\ IF ext.gestiones = <<>>
       THEN /\ ok
            /\ pc' = "refresh"
            /\ UNCHANGED <<calls, fact, loaded, result, dim>>
       ELSE /\ calls' = Append(calls, [op |-> "datamart.load_gestiones",
                                     ok |-> ok /\ GestionesLoadable(ext.gestiones)])
            /\ IF ok /\ GestionesLoadable(ext.gestiones)
               THEN /\ fact' = LoadGestionesRows(fact,
                                  [i \in 1..Len(ext.gestiones) |->
                                      GestionRecord(dim, ext.gestiones, ext.gestiones[i])],
                                  now)
                    /\ loaded' = [loaded EXCEPT !.gestiones_loaded = Len(ext.gestiones)]
                    /\ pc' = "refresh"
                    /\ UNCHANGED <<result, dim>>
               ELSE /\ Raise("PostgresError", "load_gestiones")
                    /\ dim' = {r \in dim : r.updated_at # now}
                    /\ UNCHANGED <<fact, loaded>>
    /\ UNCHANGED <<fecha, now, srcG, srcC, srcFail, ext, prev, range, aside, metrics>>

\* _load_data, second half: load_gestiones is called only for a non-empty list.
\* The lookup passes the cliente_documento texts as the bigint[] argument; whether
\* the driver takes them is outside the source: the call may fail (ok = FALSE).
LoadGestiones(ok) ==
    /\ pc = "load_gestiones"
    /\ IF ext.gestiones = <<>>
       THEN /\ ok
            /\ pc' = "refresh"
            /\ UNCHANGED <<calls, fact, loaded, result>>
       ELSE /\ calls' = Append(calls, [op |-> "datamart.load_gestiones",
                                     ok |-> ok /\ GestionesLoadable(ext.gestiones)])
            /\ IF ~GestionesLoadable(ext.gestiones)
               THEN /\ ok
                    /\ Raise("ValueError", "int")
                    /\ UNCHANGED <<fact, loaded>>
               ELSE IF ok
               THEN /\ fact' = LoadGestionesRows(fact,
                                  [i \in 1..Len(ext.gestiones) |->
                                      GestionRecord(dim, ext.gestiones, ext.gestiones[i])],
                                  now)
                    /\ loaded' = [loaded EXCEPT !.gestiones_loaded = Len(ext.gestiones)]
                    /\ pc' = "refresh"
                    /\ UNCHANGED result
               ELSE /\ Raise("PostgresError", "load_gestiones")
                    /\ UNCHANGED <<fact, loaded>>
    /\ UNCHANGED <<fecha, now, srcG, srcC, srcFail, ext, prev, range, aside, dim, metrics>>

\* a failed refresh that undoes the load of the date
RefreshMetricsRollback(fail) ==
    /\ pc = "refresh"
    /\ calls' = Append(calls, [op |-> "datamart.refresh_daily_metrics",
                              ok |-> fail = "none" /\ MetricsComputable(fact, fecha)])
    /\ IF fail = "none" /\ MetricsComputable(fact, fecha)
       THEN /\ metrics' = DeleteMetrics(metrics, fecha) \cup
                          ComputeMetrics(fact, fecha, now)
            /\ pc' = "summary"
            /\ UNCHANGED <<result, fact>>
       ELSE /\ metrics' = DeleteMetrics(metrics, fecha)
            /\ fact' = {r \in fact : r.fecha_gestion # fecha}
            /\ Raise("PostgresError", "refresh")
    /\ UNCHANGED <<fecha, now, srcG, srcC, srcFail, ext, loaded, prev, range, aside, dim>>

\* _refresh_metrics: datamart.refresh_daily_metrics(fecha_proceso); the DELETE and
\* the INSERT are two statements outside any transaction.
\* fail: "none", "before" (pool / DELETE raised), "insert" (INSERT raised)
RefreshMetrics(fail) ==
    /\ pc = "refresh"
    /\ calls' = Append(calls, [op |-> "datamart.refresh_daily_metrics",
                              ok |-> fail = "none" /\ MetricsComputable(fact, fecha)])
    /\ IF fail = "before"
       THEN /\ Raise("PostgresError", "refresh")
            /\ UNCHANGED metrics
       ELSE IF fail = "insert" \/ ~MetricsComputable(fact, fecha)
       THEN /\ metrics' = DeleteMetrics(metrics, fecha)
            /\ Raise(IF fail = "insert" THEN "PostgresError" ELSE "DivisionByZeroError",
                     "refresh")
       ELSE /\ metrics' = DeleteMetrics(metrics, fecha) \cup
                          ComputeMetrics(fact, fecha, now)
            /\ pc' = "summary"
            /\ UNCHANGED result
    /\ UNCHANGED <<fecha, now, srcG, srcC, srcFail, ext, loaded, prev, range, aside, dim, fact>>

\* execute, step 6: build and return the success dict
Summary ==
    /\ pc = "summary"
    /\ result' = [status |-> "success", fecha_proceso |-> fecha, error_type |-> "",
                  error |-> "",
                  summary |-> [total_clientes |-> Len(ext.clientes),
                               total_gestiones |-> Len(ext.gestiones),
                               clientes_loaded |-> loaded.clientes_loaded,
                               gestiones_loaded |-> loaded.gestiones_loaded],
                  keys |-> {"status", "fecha_proceso", "execution_time_seconds",
                            "extraction", "loading", "summary"}]
    /\ pc' = "idle"
    /\ UNCHANGED <<fecha, now, srcG, srcC, srcFail, ext, loaded, calls, prev, range, aside, datamart>>

\* get_processing_status(d): get_dashboard_data(d, d) and the dict built from its
\* summary, or the error dict of the except branch when the call raised (~ok).
\* It may be called at any time, also while a run is between two awaits.
GetProcessingStatus(d, ok) ==
    /\ statusq.n < MaxQueries
    /\ statusq' =
          [n |-> statusq.n + 1,
           raised |-> ~ok,
           reply |->
              IF ~ok
              THEN [status |-> "error", fecha_proceso |-> d, data_available |-> FALSE,
                    summary |-> <<>>, error |-> "query",
                    keys |-> {"status", "fecha_proceso", "error"}]
              ELSE LET summary == DashboardSummary(fact, d, d)
                   IN  IF summary.total_gestiones > 0
                       THEN [status |-> "completed", fecha_proceso |-> d,
                             data_available |-> TRUE, summary |-> summary,
                             error |-> "",
                             keys |-> {"status", "fecha_proceso", "data_available",
                                       "summary"}]
                       ELSE [status |-> "no_data", fecha_proceso |-> d,
                             data_available |-> FALSE, summary |-> <<>>,
                             error |-> "",
                             keys |-> {"status", "fecha_proceso", "data_available"}]]
    /\ UNCHANGED <<pipeline, config, obj, tasks, pool>>

\* what a finished pass met: a failed source call, a failed datamart call
SourceDown ==
    \/ srcFail # {}
    \/ \E i \in 1..Len(calls) : calls[i].op = "bigquery.test_connection" /\ ~calls[i].ok
OtherFail ==
    \E i \in 1..Len(calls) : calls[i].op # "bigquery.test_connection" /\ ~calls[i].ok

(***************************************************************************)
(* A date-range run: one execute() per date, in order.  The repository     *)
(* has no range entry point; this is the caller loop the specification     *)
(* describes (runForRange), over the code of execute().                    *)
(***************************************************************************)
RangeDates == [i \in 1..RangeDays |-> i]

\* a caller starts a range run
RangeStart ==
    /\ pc = "idle"
    /\ ~range.active
    /\ now = 0
    /\ range' = [active |-> TRUE, left |-> RangeDates, outcomes |-> <<>>]
    /\ UNCHANGED <<pc, fecha, now, srcG, srcC, srcFail, ext, loaded, result, calls,
                   prev, datamart, aside>>

\* the loop body: record the pass that returned, call execute for the next date
RangeNext ==
    /\ pc = "idle"
    /\ range.active
    /\ LET done == IF result.status = "none" THEN range.outcomes
                   ELSE Append(range.outcomes,
                               [fecha |-> fecha, status |-> result.status,
                                srcDown |-> SourceDown, otherFail |-> OtherFail])
       IN  IF range.left = <<>>
           THEN /\ result.status # "none"
                /\ range' = [active |-> FALSE, left |-> <<>>, outcomes |-> done]
                /\ result' = NoResult
                /\ UNCHANGED <<pc, fecha, now, srcG, srcC, srcFail, ext, loaded,
                               calls, prev, datamart, aside>>
           ELSE /\ range' = [range EXCEPT !.left = Tail(range.left),
                                          !.outcomes = done]
                /\ BeginExecute(Head(range.left))

\* the steps of execute() shared by every specification
Steps ==
    \/ \E ok \in BOOLEAN : TestBigQuery(ok)
    \/ \E ok \in BOOLEAN : TestPostgres(ok)
    \/ \E ok \in BOOLEAN : EnsureSchema(ok)
    \/ \E ok \in BOOLEAN : LoadClientes(ok)
    \/ \E ok \in BOOLEAN : LoadGestiones(ok)
    \/ \E fail \in {"none", "before", "insert"} : RefreshMetrics(fail)
    \/ Summary

\* repeated daily runs over small source tables
Next ==
    \/ \E d \in Fechas : StartRun(d, MaxRuns)
    \/ /\ pc = "extract"
       /\ \E tg \in GestionTables, tc \in ClienteTables,
             gfail \in BOOLEAN, cfail \in BOOLEAN :
             Extract(tg, tc, gfail, cfail)
    \/ Steps

Spec == Init /\ [][Next]_vars

\* one daily run over larger source tables
NextBatch ==
    \/ \E d \in Fechas : StartRun(d, 1)
    \/ /\ pc = "extract"
       /\ \E tg \in BatchGestionTables, tc \in BatchClienteTables,
             gfail \in BOOLEAN, cfail \in BOOLEAN :
             Extract(tg, tc, gfail, cfail)
    \/ Steps

SpecBatch == Init /\ [][NextBatch]_vars

\* one date-range run; the source tables hold no rows
NextRange ==
    \/ RangeStart
    \/ RangeNext
    \/ \E gfail \in BOOLEAN, cfail \in BOOLEAN : Extract({}, {}, gfail, cfail)
    \/ Steps

SpecRange == Init /\ [][NextRange]_vars

(***************************************************************************)
(* Customer loads over master_luna rows of several customer keys           *)
(***************************************************************************)
\* master_luna rows of two customer keys and two identity documents
WideClienteRows ==
    [cod_luna : {1, 2}, cliente : {None}, dni : {1, 2},
     servicio : {None}, cartera : {None}, monto_exigible : {0}, zona : {None}]
WideClienteTables == SubsetsUpTo(WideClienteRows, MaxBatchRows)

NextClientes ==
    \/ \E d \in Fechas : StartRun(d, MaxRuns)
    \/ /\ pc = "extract"
       /\ \E tc \in WideClienteTables, cfail \in BOOLEAN : Extract({}, tc, FALSE, cfail)
    \/ Steps

SpecClientes == Init /\ [][NextClientes]_vars

(***************************************************************************)
(* A daily run fed rows, under fairness: a started run keeps taking steps  *)
(* (each await of execute returns or raises)                               *)
(***************************************************************************)
RunStep ==
    \/ /\ pc = "extract"
       /\ \E tg \in GestionTables, tc \in ClienteTables,
             gfail \in BOOLEAN, cfail \in BOOLEAN :
             Extract(tg, tc, gfail, cfail)
    \/ Steps

NextOnce ==
    \/ \E d \in Fechas : StartRun(d, 1)
    \/ RunStep

SpecFair == Init /\ [][NextOnce]_vars /\ WF_vars(RunStep)

(***************************************************************************)
(* A daily run whose extraction is followed task by task                   *)
(***************************************************************************)
NextExtract ==
    \/ \E d \in Fechas : StartRun(d, 1)
    \/ ExtractStart
    \/ /\ pc = "gather"
       /\ \E tg \in GestionTables, fail \in BOOLEAN : TaskGestiones(tg, fail)
    \/ /\ pc = "gather"
       /\ \E tc \in ClienteTables, fail \in BOOLEAN : TaskClientes(tc, fail)
    \/ ExtractGather
    \/ Steps

SpecExtract == Init /\ [][NextExtract]_vars

(***************************************************************************)
(* The connection pool of one TelefonicaDatamartAdapter used by coroutines *)
(* that run concurrently (each adapter method starts with                  *)
(* `await self.initialize_pool()`); a step is what runs between two awaits *)
(***************************************************************************)
Creating == {t \in PoolUsers : pool.at[t] = "creating"}

\* initialize_pool up to its await: `if not self._pool:` then create_pool is awaited
InitializePoolCheck(t) ==
    /\ pool.at[t] = "idle"
    /\ IF pool.current = 0
       THEN /\ pool.created + Cardinality(Creating) < MaxPools
            /\ pool' = [pool EXCEPT !.at[t] = "creating"]
       ELSE pool' = [pool EXCEPT !.at[t] = "using"]
    /\ UNCHANGED <<pipeline, config, obj, tasks, statusq>>

\* initialize_pool after its await: self._pool = <the pool create_pool returned>
InitializePoolSet(t) ==
    /\ pool.at[t] = "creating"
    /\ pool' = [pool EXCEPT !.created = @ + 1, !.current = pool.created + 1,
                            !.at[t] = "using"]
    /\ UNCHANGED <<pipeline, config, obj, tasks, statusq>>

\* the adapter method leaves its `async with self._pool.acquire()` block and returns
ReleaseConnection(t) ==
    /\ pool.at[t] = "using"
    /\ pool' = [pool EXCEPT !.at[t] = "idle"]
    /\ UNCHANGED <<pipeline, config, obj, tasks, statusq>>

\* close_pool up to its await: `if self._pool:` then self._pool.close() is awaited
ClosePoolBegin(t) ==
    /\ pool.at[t] = "idle"
    /\ pool.current # 0
    /\ pool' = [pool EXCEPT !.at[t] = "closing", !.closing[t] = pool.current]
    /\ UNCHANGED <<pipeline, config, obj, tasks, statusq>>

\* close_pool after its await: the pool is closed, self._pool = None
ClosePoolEnd(t) ==
    /\ pool.at[t] = "closing"
    /\ pool' = [pool EXCEPT !.closed = @ \cup {pool.closing[t]}, !.current = 0,
                            !.at[t] = "idle", !.closing[t] = 0]
    /\ UNCHANGED <<pipeline, config, obj, tasks, statusq>>

NextPool ==
    \/ \E t \in PoolUsers : InitializePoolCheck(t)
    \/ \E t \in PoolUsers : InitializePoolSet(t)
    \/ \E t \in PoolUsers : ReleaseConnection(t)
    \/ \E t \in PoolUsers : ClosePoolBegin(t)
    \/ \E t \in PoolUsers : ClosePoolEnd(t)

SpecPool == Init /\ [][NextPool]_vars

(***************************************************************************)
(* A daily run and status queries made before, during and after it         *)
(***************************************************************************)
NextStatus ==
    \/ \E d \in Fechas : StartRun(d, 1)
    \/ RunStep
    \/ \E d \in Fechas, ok \in BOOLEAN : GetProcessingStatus(d, ok)

SpecStatus == Init /\ [][NextStatus]_vars

(***************************************************************************)
(* A daily run under a tenant configuration.  execute() takes no           *)
(* configuration; Validate is the registry's validate of the               *)
(* specification (the repository declares it abstract).                    *)
(***************************************************************************)
\* validate(config): the missing-mapping errors
Validate(cfg) == {[error |-> "missing mapping", field |-> f] : f \in CanonicalFields \ cfg}

InitConfig ==
    /\ InitPipeline
    /\ config \in SUBSET CanonicalFields
    /\ obj = NoObj
    /\ InitIdle

NextConfig ==
    \/ \E d \in Fechas : StartRun(d, 1)
    \/ /\ pc = "extract"
       /\ \E tc \in ClienteTables, cfail \in BOOLEAN : Extract({}, tc, FALSE, cfail)
    \/ Steps

SpecConfig == InitConfig /\ [][NextConfig]_vars

(***************************************************************************)
(* Construction of domain entities                                         *)
(***************************************************************************)
Saldos == {Float(-1), Float(0), Float(499), Float(500), Float(1499), Float(1500), NaN}
DiasMora == {-1, 0, 29, 30, 89, 90}

ClienteArgs ==
    [documento : Texts, nombre : Texts, saldo_actual : Saldos, dias_mora : DiasMora]
\* the second customer of a comparison
OtherClienteArgs ==
    [documento : Texts, nombre : {<<"7">>, <<"8">>},
     saldo_actual : {Float(0), Float(1500)}, dias_mora : {0, 90}]
GestionArgs ==
    [documento_cliente : Texts, ejecutivo : {<<>>, <<" ">>, <<"7">>},
     numero_intentos : {0, 1, 2}, es_contacto : BOOLEAN, es_compromiso : BOOLEAN,
     monto_comprometido : {NoFloat, Float(0), Float(5), NaN},
     canal : {"CALL"}, tipificacion_homologada : {"COMPROMISO_PAGO", "NO_CONTACTO"}]

\* a caller evaluates Cliente(...) and binds the outcome to a free name
BuildCliente(slot, c) ==
    /\ obj[slot] = NoValue
    /\ obj' = [obj EXCEPT ![slot] = NewClienteEntity(c)]
    /\ UNCHANGED <<pipeline, config, tasks, pool, statusq>>

\* a caller evaluates Gestion(...)
BuildGestion(g) ==
    /\ obj.a = NoValue
    /\ obj' = [obj EXCEPT !.a = NewGestionEntity(g)]
    /\ UNCHANGED <<pipeline, config, tasks, pool, statusq>>

\* the metric values, thresholds and targets explored
Valores == {Float(-5), Float(0), Float(5), Float(15), Float(35), NaN}
Thresholds == {NoFloat, Float(10), Float(20), NaN}
Targets == {NoFloat, Float(-3), Float(0), Float(30), NaN}
MetricaArgs ==
    [nombre : {<<" ">>, <<"7">>}, valor : Valores,
     unidad : {"PORCENTAJE", "SCORE", "CANTIDAD"},
     threshold_warning : Thresholds, threshold_critical : Thresholds,
     target_value : Targets]

\* a caller evaluates Metrica(...)
BuildMetrica(m) ==
    /\ obj.a = NoValue
    /\ obj' = [obj EXCEPT !.a = NewMetrica(m)]
    /\ UNCHANGED <<pipeline, config, tasks, pool, statusq>>

\* a caller holds a member of CanalContacto or of TipificacionHomologada
PutMember(enum, name) ==
    /\ obj.b = NoValue
    /\ obj' = [obj EXCEPT !.b = [kind |-> enum, args |-> name, error |-> ""]]
    /\ UNCHANGED <<pipeline, config, tasks, pool, statusq>>

\* a caller holds a plain text to compare a customer with
PutText(t) ==
    /\ obj.b = NoValue
    /\ obj' = [obj EXCEPT !.b = [kind |-> "str", args |-> t, error |-> ""]]
    /\ UNCHANGED <<pipeline, config, tasks, pool, statusq>>

NextEntity ==
    \/ /\ obj.a = NoValue
       /\ \E c \in ClienteArgs : BuildCliente("a", c)
    \/ /\ obj.a = NoValue
       /\ \E g \in GestionArgs : BuildGestion(g)
    \/ /\ obj.a = NoValue
       /\ \E m \in MetricaArgs : BuildMetrica(m)
    \/ /\ obj.b = NoValue
       /\ \E c \in OtherClienteArgs : BuildCliente("b", c)
    \/ \E t \in Texts : PutText(t)
    \/ \E c \in CanalContacto : PutMember("CanalContacto", c)
    \/ \E i \in DOMAIN TipificacionMembers :
          PutMember("TipificacionHomologada", TipificacionMembers[i])

SpecEntity == Init /\ [][NextEntity]_vars

(***************************************************************************)
(* Properties                                                              *)
(***************************************************************************)
Finished == pc = "idle" /\ result.status # "none"
Called(op) == \E i \in 1..Len(calls) : calls[i].op = op
LastCall == calls[Len(calls)]
TestOps == {"bigquery.test_connection", "datamart.test_connection"}
LoadOps == {"datamart.load_clientes", "datamart.load_gestiones"}

RECURSIVE SumTotal(_)
SumTotal(rows) ==
    IF rows = {} THEN 0
    ELSE LET m == CHOOSE x \in rows : TRUE
         IN  m.total_gestiones + SumTotal(rows \ {m})

\* C1: a run that follows a successful run of the same date, with the same source
\* rows and with that run's extraction unfailed, leaves the number of rows of
\* dim_clientes and of fact_gestiones as the first run left them.
C1_Idempotence ==
    (/\ Finished
     /\ prev.status = "success"
     /\ prev.fecha = fecha
     /\ prev.srcFail = {}
     /\ prev.srcG = srcG
     /\ prev.srcC = srcC)
    => (Cardinality(dim) = prev.ndim /\ Cardinality(fact) = prev.nfact)

C1_Witness ==
    /\ Finished
    /\ result.status = "success"
    /\ prev.status = "success"
    /\ prev.fecha = fecha
    /\ prev.srcFail = {}
    /\ srcFail = {}
    /\ prev.srcG = srcG
    /\ prev.srcC = srcC
    /\ result.summary.gestiones_loaded > 0
    /\ result.summary.clientes_loaded > 0
    /\ Cardinality(fact) > 0
    /\ Cardinality(dim) > 0

\* C2: once a test_connection call has reported failure, it is the last port call
\* of the run, the run has returned status error, and no schema creation,
\* extraction, load or refresh was invoked in that run.
C2_FailFast ==
    \A i \in 1..Len(calls) :
        (calls[i].op \in TestOps /\ ~calls[i].ok)
        => /\ i = Len(calls)
           /\ pc = "idle"
           /\ result.status = "error"
           /\ \A j \in 1..Len(calls) : calls[j].op \in TestOps

C2_Witness ==
    /\ Finished
    /\ Len(calls) = 2
    /\ LastCall.op = "datamart.test_connection"
    /\ ~LastCall.ok
    /\ result.error_type = "ConnectionError"

\* C3: when the customer query or the activity query of the run raised, the run
\* ends with status error and no load is performed.
C3_ExtractionFatal ==
    srcFail # {}
    => /\ \A i \in 1..Len(calls) : calls[i].op \notin LoadOps
       /\ Finished => result.status = "error"

\* C4: load_gestiones is started only after every load_clientes call of the run,
\* only if that call succeeded, and after it whenever there are customers to load.
C4_LoadOrder ==
    \A i \in 1..Len(calls) :
        calls[i].op = "datamart.load_gestiones"
        => /\ \A j \in 1..Len(calls) :
                 calls[j].op = "datamart.load_clientes" => (j < i /\ calls[j].ok)
           /\ ext.clientes # <<>>
                 => \E j \in 1..(i - 1) : calls[j].op = "datamart.load_clientes"

C4_Witness ==
    /\ Called("datamart.load_clientes")
    /\ Called("datamart.load_gestiones")
    /\ LastCall.op = "datamart.load_gestiones"
    /\ LastCall.ok

\* C5: refresh_daily_metrics is invoked only when every earlier port call of the
\* run succeeded and no extraction query of the run failed.
C5_RefreshAfterLoad ==
    \A i \in 1..Len(calls) :
        calls[i].op = "datamart.refresh_daily_metrics"
        => /\ \A j \in 1..(i - 1) : calls[j].ok
           /\ srcFail = {}

\* C6: a run whose only failed port call is refresh_daily_metrics returns
\* status success.
C6_RefreshFailureReported ==
    (/\ Finished
     /\ LastCall.op = "datamart.refresh_daily_metrics"
     /\ ~LastCall.ok
     /\ \A j \in 1..(Len(calls) - 1) : calls[j].ok)
    => result.status = "success"

\* C7: a refresh that fails changes neither dim_clientes nor fact_gestiones, and after
\* it every customer and every activity the run loaded is still stored (an activity
\* with the outcome code of the last record of its gestion_id in the batch).
RefreshFailed ==
    /\ Finished
    /\ LastCall.op = "datamart.refresh_daily_metrics"
    /\ ~LastCall.ok

LoadedRowsPresent ==
    /\ \A i \in 1..Len(ext.clientes) :
          \E r \in dim : /\ r.cod_luna = ext.clientes[i].cod_luna
                         /\ r.updated_at = now
    /\ \A i \in 1..Len(ext.gestiones) :
          \E r \in fact :
             /\ r.gestion_id = ext.gestiones[i].gestion_id
             /\ (\A j \in (i + 1)..Len(ext.gestiones) :
                    ext.gestiones[j].gestion_id # r.gestion_id)
                => r.contactabilidad = ext.gestiones[i].contactabilidad

C7_NoRollback ==
    /\ [][(pc = "refresh" /\ pc' = "idle") => (dim' = dim /\ fact' = fact)]_vars
    /\ [](RefreshFailed => LoadedRowsPresent)

C7_Witness ==
    /\ RefreshFailed
    /\ loaded.clientes_loaded > 0
    /\ loaded.gestiones_loaded > 0
    /\ \E r \in fact : r.fecha_gestion = fecha /\ r.created_at = now

\* C8: when refresh_daily_metrics(d) has returned, the total_gestiones of the
\* daily_metrics rows of d add up to the number of fact_gestiones rows of d.
Refreshed ==
    /\ pc \in {"summary", "idle"}
    /\ calls # <<>>
    /\ LastCall.op = "datamart.refresh_daily_metrics"
    /\ LastCall.ok

C8_AggregateConsistency ==
    Refreshed
    => SumTotal({m \in metrics : m.fecha = fecha})
         = Cardinality({r \in fact : r.fecha_gestion = fecha})

C8_Witness ==
    /\ Refreshed
    /\ Cardinality({m \in metrics : m.fecha = fecha}) = 1
    /\ Cardinality({r \in fact : r.fecha_gestion = fecha}) = 2
    /\ now = 2

\* C9: in a finished range run whose third date met an unavailable source, and no
\* other failure, four passes report success, the third reports error, and all
\* RangeDays dates were executed.
RangeDone == ~range.active /\ range.outcomes # <<>>

C9_RangeResilience ==
    (/\ RangeDone
     /\ Len(range.outcomes) = RangeDays
     /\ range.outcomes[3].srcDown
     /\ \A i \in 1..RangeDays : i # 3 => ~range.outcomes[i].srcDown
     /\ \A i \in 1..RangeDays : ~range.outcomes[i].otherFail)
    => /\ range.outcomes[3].status = "error"
       /\ Cardinality({i \in 1..RangeDays : range.outcomes[i].status = "success"})
            = RangeDays - 1

\* C10: a successful run whose activity rows, no two of one customer and time, hold
\* exactly one row with an outcome code of no canonical mapping reports the other
\* rows, and only them, as loaded, and stores no row carrying the unmapped code.
MappedCodes == {"CONTACTO EFECTIVO", "NO CONTACTO"}

C10_RecordIsolation ==
    (/\ Finished
     /\ result.status = "success"
     /\ srcFail = {}
     /\ \A r1, r2 \in srcG :
           (r1.cod_luna = r2.cod_luna /\ r1.hora_gestion = r2.hora_gestion) => r1 = r2
     /\ Cardinality({r \in srcG : r.contactabilidad \notin MappedCodes}) = 1)
    => /\ result.summary.gestiones_loaded = Cardinality(srcG) - 1
       /\ \A r \in fact : r.contactabilidad \in MappedCodes

\* C11: a finished run that met no connection or datamart failure and whose
\* activity rows hold valid rows and exactly one row without a customer key ends
\* successful and reports the valid rows as loaded.
InfrastructureErrors == {"ConnectionError", "PostgresError", "DivisionByZeroError"}

C11_NoRecordAbortsBatch ==
    (/\ Finished
     /\ srcFail = {}
     /\ result.error_type \notin InfrastructureErrors
     /\ Cardinality(srcG) > 1
     /\ Cardinality({r \in srcG : r.cod_luna = NoCod}) = 1)
    => /\ result.status = "success"
       /\ result.summary.gestiones_loaded = Cardinality(srcG) - 1

\* C12: a Gestion(...) call with es_compromiso true and es_contacto false raises,
\* whatever the other arguments are, so no Gestion object holds a commitment
\* without contact.
C12_CommitmentImpliesContact ==
    obj.a.kind = "Gestion"
    => /\ (obj.a.args.es_compromiso /\ ~obj.a.args.es_contacto) => obj.a.error # ""
       /\ obj.a.error = "" => (obj.a.args.es_compromiso => obj.a.args.es_contacto)

C12_Witness ==
    /\ obj.a.kind = "Gestion"
    /\ obj.a.args.es_compromiso
    /\ ~obj.a.args.es_contacto
    /\ Strip(obj.a.args.documento_cliente) # <<>>
    /\ Strip(obj.a.args.ejecutivo) # <<>>
    /\ obj.a.args.numero_intentos = 1
    /\ IsNone(obj.a.args.monto_comprometido)
    /\ obj.a.error = "No puede haber compromiso sin contacto efectivo"

\* C13: under a configuration that lacks the mapping of a canonical field, validate
\* reports errors and the run never reaches the loading stage.
C13_FailClosedMapping ==
    (CanonicalFields \ config # {})
    => /\ Validate(config) # {}
       /\ pc \notin {"load_clientes", "load_gestiones"}
       /\ \A i \in 1..Len(calls) : calls[i].op \notin LoadOps

\* C14: a started run always comes back to the caller with one result, of status
\* success or error; an error result carries the elapsed time, the message and the
\* type of the error, a success result the elapsed time and the counts per stage.
ResultWellFormed ==
    /\ result.status \in {"success", "error"}
    /\ result.status = "error"
          => /\ {"execution_time_seconds", "error", "error_type"} \subseteq result.keys
             /\ result.error_type # ""
    /\ result.status = "success"
          => {"execution_time_seconds", "extraction", "loading", "summary"}
                \subseteq result.keys

C14_TerminalState ==
    /\ [](pc = "idle" /\ now > 0 => ResultWellFormed)
    /\ (pc # "idle") ~> (pc = "idle" /\ ResultWellFormed)

C14_Witness ==
    /\ Finished
    /\ result.status = "error"
    /\ result.error_type = "PostgresError"
    /\ LastCall.op = "datamart.load_gestiones"

\* C15: no step of any run removes a customer key from dim_clientes or an
\* activity identifier from fact_gestiones.
C15_NeverDeleted ==
    [][/\ {r.cod_luna : r \in dim} \subseteq {r.cod_luna : r \in dim'}
       /\ {r.gestion_id : r \in fact} \subseteq {r.gestion_id : r \in fact'}]_vars

C15_Witness ==
    /\ Finished
    /\ now = 2
    /\ loaded.gestiones_loaded > 0
    /\ loaded.clientes_loaded > 0
    /\ \E r \in fact : r.fecha_gestion # fecha /\ r.created_at = 1
    /\ \E r \in fact : r.fecha_gestion = fecha /\ r.created_at = 2
    /\ \E r \in dim : r.created_at = 1 /\ r.updated_at = 2

GestionesLoaded ==
    /\ pc \in {"refresh", "summary", "idle"}
    /\ \E i \in 1..Len(calls) : calls[i].op = "datamart.load_gestiones" /\ calls[i].ok

C18_ClienteInvariants ==
    obj.a.kind = "Cliente"
    => LET c == obj.a.args
       IN  /\ (\/ Strip(c.documento) = <<>>
               \/ Strip(c.nombre) = <<>>
               \/ FloatLt(c.saldo_actual, Float(0))
               \/ c.dias_mora < 0) => obj.a.error # ""
           /\ (/\ Strip(c.documento) # <<>>
               /\ Strip(c.nombre) # <<>>
               /\ c.saldo_actual = Float(0)
               /\ c.dias_mora = 0) => obj.a.error = ""
           /\ obj.a.error = ""
                 => (FloatGe(c.saldo_actual, Float(0)) /\ c.dias_mora >= 0)

\* C19: two Cliente objects are equal exactly when their documents are equal, equal
\* objects have equal hashes, and a Cliente is not equal to a value of another type.
C19_ClienteEquality ==
    (/\ obj.a.kind = "Cliente" /\ obj.a.error = ""
     /\ obj.b.kind # "none" /\ obj.b.error = "")
    => /\ obj.b.kind = "Cliente"
             => /\ ClienteEq(obj.a, obj.b)
                   <=> obj.a.args.documento = obj.b.args.documento
                /\ ClienteEq(obj.a, obj.b) <=> ClienteEq(obj.b, obj.a)
                /\ ClienteEq(obj.a, obj.b) => ClienteHash(obj.a) = ClienteHash(obj.b)
       /\ obj.b.kind # "Cliente" => ~ClienteEq(obj.a, obj.b)

C19_Witness ==
    /\ obj.a.kind = "Cliente" /\ obj.a.error = ""
    /\ obj.b.kind = "Cliente" /\ obj.b.error = ""
    /\ obj.a.args.documento = obj.b.args.documento
    /\ obj.a.args.nombre # obj.b.args.nombre
    /\ obj.a.args.saldo_actual # obj.b.args.saldo_actual
    /\ obj.a.args.dias_mora # obj.b.args.dias_mora
    /\ ClienteEq(obj.a, obj.b)

\* C20: calcular_prioridad_cobranza is ALTA exactly when days overdue >= 90 and
\* balance >= 1500, MEDIA exactly when not ALTA and days >= 30 and balance >= 500,
\* BAJA otherwise; a higher balance or more days overdue never give a lower priority.
PrioridadRank(p) == IF p = "ALTA" THEN 2 ELSE IF p = "MEDIA" THEN 1 ELSE 0

C21_RefreshConfined ==
    [][pc = "refresh"
       => /\ {m \in metrics' : m.fecha # fecha} = {m \in metrics : m.fecha # fecha}
          /\ dim' = dim
          /\ fact' = fact
          /\ pc' = "summary"
                => {m \in metrics' : m.fecha = fecha} = ComputeMetrics(fact, fecha, now)]_vars

C21_Witness ==
    /\ Refreshed
    /\ now = 2
    /\ \E m \in metrics : m.fecha # fecha /\ m.created_at = 1
    /\ \E m \in metrics : m.fecha = fecha /\ m.created_at = 2
    /\ dim # {}

\* C22: both extraction tasks are created before either runs, and whichever task
\* completes first, the extraction result holds the list of the activity task as
\* gestiones, the list of the customer task as clientes (an empty list for a task
\* that raised), their lengths as counts, and one entity per row queried.
Gathered ==
    /\ Len(tasks.order) = 2
    /\ pc \in {"load_clientes", "load_gestiones", "refresh", "summary", "idle"}

C22_ExtractionOrderFree ==
    /\ pc = "gather"
          => (tasks.gestiones.state # "none" /\ tasks.clientes.state # "none")
    /\ Gathered
          => /\ ext.gestiones = tasks.gestiones.out
             /\ ext.clientes = tasks.clientes.out
             /\ ext.metadata.total_gestiones = Len(tasks.gestiones.out)
             /\ ext.metadata.total_clientes = Len(tasks.clientes.out)
             /\ {ext.gestiones[i] : i \in 1..Len(ext.gestiones)}
                   = IF "gestiones" \in srcFail THEN {}
                     ELSE {NewGestion(SelectGestion(r)) : r \in srcG}
             /\ {ext.clientes[i].cod_luna : i \in 1..Len(ext.clientes)}
                   = IF "clientes" \in srcFail THEN {}
                     ELSE {r.cod_luna : r \in srcC}

C22_Witness ==
    /\ Gathered
    /\ tasks.order = <<"clientes", "gestiones">>
    /\ ext.gestiones # <<>>
    /\ ext.clientes # <<>>
    /\ srcFail = {}

\* C23: get_processing_status(d) returns status error when the datamart call raised
\* and only then; otherwise status no_data with data_available false when
\* fact_gestiones holds no row of d, and status completed with the summary of the
\* rows of d when it holds one; the call leaves the three tables as they were.
C23_StatusQuery ==
    [][statusq' # statusq
       => LET r == statusq'.reply
              rows == {x \in fact : x.fecha_gestion = r.fecha_proceso}
          IN  /\ datamart' = datamart
              /\ r.status \in {"no_data", "completed", "error"}
              /\ statusq'.raised <=> r.status = "error"
              /\ r.status = "error" => "error" \in r.keys
              /\ ~statusq'.raised
                    => /\ rows = {} <=> (r.status = "no_data" /\ ~r.data_available)
                       /\ rows # {} <=> (/\ r.status = "completed"
                                         /\ r.data_available
                                         /\ "summary" \in r.keys
                                         /\ r.summary.total_gestiones
                                              = Cardinality(rows))]_vars

C23_Witness ==
    /\ statusq.n = 2
    /\ ~statusq.raised
    /\ statusq.reply.status = "no_data"
    /\ statusq.reply.fecha_proceso # fecha
    /\ Finished
    /\ result.status = "success"
    /\ \E x \in fact : x.fecha_gestion = fecha

\* C24: every channel of canales_de_alta_conversion requires a human agent, every
\* channel of canales_de_bajo_costo is automated or requires no human agent, every
\* outcome of tipificaciones_de_exito is a positive result, and an outcome is in
\* tipificaciones_de_contacto exactly when indica_contacto_efectivo is true for it.
Members(s) == {s[i] : i \in DOMAIN s}

C24_EnumConsistency ==
    /\ obj.b.kind = "CanalContacto"
          => LET c == obj.b.args
             IN  /\ c \in Members(CanalesDeAltaConversion) => RequiereAgenteHumano(c)
                 /\ c \in Members(CanalesDeBajoCosto)
                       => (EsCanalAutomatizado(c) \/ ~RequiereAgenteHumano(c))
    /\ obj.b.kind = "TipificacionHomologada"
          => LET t == obj.b.args
             IN  /\ t \in Members(TipificacionesDeExito) => EsResultadoPositivo(t)
                 /\ t \in Members(TipificacionesDeContacto)
                       <=> IndicaContactoEfectivo(t)

C24_Witness ==
    /\ obj.b.kind = "CanalContacto"
    /\ obj.b.args = "WHATSAPP"
    /\ obj.b.args \in Members(CanalesDeAltaConversion)
    /\ RequiereAgenteHumano(obj.b.args)
    /\ ~EsCanalAutomatizado(obj.b.args)

\* C30: for every Metrica object built with both thresholds set,
\* calcular_nivel_rendimiento is EXCELENTE when a target is set and the value is >=
\* the target, otherwise BUENO when the value is >= the warning threshold, otherwise
\* WARNING when it is >= the critical threshold, otherwise CRITICO.
C30_NivelRendimiento ==
    (/\ obj.a.kind = "Metrica"
     /\ obj.a.error = ""
     /\ ~IsNone(obj.a.args.threshold_warning)
     /\ ~IsNone(obj.a.args.threshold_critical))
    => LET m == obj.a.args
       IN  CalcularNivelRendimiento(m) =
             IF ~IsNone(m.target_value) /\ FloatGe(m.valor, m.target_value)
             THEN "EXCELENTE"
             ELSE IF FloatGe(m.valor, m.threshold_warning) THEN "BUENO"
             ELSE IF FloatGe(m.valor, m.threshold_critical) THEN "WARNING"
             ELSE "CRITICO"

\* C25: every pool the adapter created is the pool it holds, is closed, or is being
\* closed: no pool is replaced in _pool without having been closed.
C25_SinglePool ==
    \A p \in 1..pool.created :
        \/ p = pool.current
        \/ p \in pool.closed
        \/ \E t \in PoolUsers : pool.at[t] = "closing" /\ pool.closing[t] = p

GestionesLoadFailed ==
    /\ Finished
    /\ LastCall.op = "datamart.load_gestiones"
    /\ ~LastCall.ok
    /\ \E i \in 1..Len(calls) : calls[i].op = "datamart.load_clientes" /\ calls[i].ok

C27_LoadsNotAtomic ==
    /\ GestionesLoadFailed
          => /\ result.status = "error"
             /\ \A i \in 1..Len(ext.clientes) :
                   \E r \in dim : /\ r.cod_luna = ext.clientes[i].cod_luna
                                  /\ r.documento = ext.clientes[i].documento
                                  /\ r.updated_at = now
             /\ ~Called("datamart.refresh_daily_metrics")
    /\ \A i \in 1..Len(calls) :
          (calls[i].op = "datamart.load_gestiones" /\ ~calls[i].ok)
          => (i = Len(calls) /\ pc = "idle")

C27_Witness ==
    /\ GestionesLoadFailed
    /\ now = 1
    /\ loaded.clientes_loaded = 1
    /\ Cardinality(dim) = 1
    /\ fact = {}
    /\ result.error_type = "PostgresError"

\* C28: after a refresh_daily_metrics(d) step, failed or not, the daily_metrics rows
\* of d are either the rows that were there before the call or the rows recomputed
\* from the fact rows of d.
MetricsOf(tbl, d) == {m \in tbl : m.fecha = d}

C28_RefreshAtomic ==
    [][pc = "refresh"
       => \/ MetricsOf(metrics', fecha) = MetricsOf(metrics, fecha)
          \/ /\ MetricsComputable(fact, fecha)
             /\ MetricsOf(metrics', fecha) = ComputeMetrics(fact, fecha, now)]_vars

\* C29: a refresh_daily_metrics call that meets no connection or statement failure
\* of the datamart returns, whatever the fact rows of the date are: no run ends with
\* a division by zero raised by the rates of a group without effective contact.
C29_RatesDefined ==
    (Finished /\ Called("datamart.refresh_daily_metrics"))
    => result.error_type # "DivisionByZeroError"

====
